---- MODULE Spec2Model ----
(***************************************************************************)
(* Model of Scripts/machine_learning_tutorial.py: a stratified K-fold      *)
(* cross-validation of a linear SVM (snippets 2 and 9-18).                 *)
(*                                                                         *)
(* One run of the script is the pass                                       *)
(*   split -> (next fold, normalize, fit, predict, score) x K -> summary.  *)
(* The library calls are modelled by what they compute:                    *)
(*   StratifiedKFold.split  - scikit-learn's _make_test_folds             *)
(*   StandardScaler         - mean / variance, zero scale replaced by 1    *)
(*   LinearSVC              - a linear classifier trained in an order set  *)
(*                            by a seed drawn from numpy's global RNG      *)
(*   confusion_matrix, accuracy_score, balanced_accuracy_score             *)
(* Real numbers are exact rationals [num, den]; den = 0 is NaN (0/0).      *)
(* A z-score is [num, den2] and stands for num / sqrt(den2).               *)
(* There is one feature column.                                            *)
(*                                                                         *)
(* After a run ends the script may be run again (run 2): on the same       *)
(* input, or on an input whose features differ in one fold's test samples. *)
(* SpecAnyOrder adds a second run that executes the loop body over the     *)
(* folds in another order.                                                 *)
(***************************************************************************)
EXTENDS Integers, Sequences, FiniteSets

\* ------------------------------------------------------------ bounds
MaxN == 5          \* datasets have MaxN-1 or MaxN samples
MaxFolds == 3      \* n_folds ranges over 2..MaxFolds
FeatureValues == {0, 1}   \* the feature values of the datasets
RngMod == 8        \* number of states of the modelled random generators

\* ------------------------------------------------------------ snippet 2
random_seed == 1

VARIABLES
  features, targets,        \* snippet 10: the input arrays
  n_folds,                  \* snippet 9 (10 in the script; 2..MaxFolds here)
  np_rng,                   \* state of numpy's global RandomState
  pc,                       \* position of the script
  cv,                       \* the (train_idx, test_idx) pairs of skf.split
  order, n_done,            \* order in which folds are taken; folds finished
  i_fold,
  features_train, features_test, targets_train, targets_test,
  scaler, features_train_norm, features_test_norm,
  clf, target_test_predicted,
  acc_cv, bac_cv, sens_cv, spec_cv,
  cv_results,               \* snippet 18: mean and variance of each table
  writes, steps, scaler_log, cm_log, n_splits_calls,   \* history
  seed_log,                 \* history: the solver seed each fold's fit drew
  run, mode, perturbed_fold, first                     \* second run

vars == <<features, targets, n_folds, np_rng, pc, cv, order,
          n_done, i_fold, features_train, features_test, targets_train,
          targets_test, scaler, features_train_norm, features_test_norm,
          clf, target_test_predicted, acc_cv, bac_cv, sens_cv, spec_cv,
          cv_results, writes, steps, scaler_log, cm_log, n_splits_calls,
          seed_log, run, mode, perturbed_fold, first>>

None == "none"

\* ------------------------------------------------------------ helpers
Range(s) == {s[i] : i \in DOMAIN s}

Count(s, v) == Cardinality({i \in DOMAIN s : s[i] = v})

RECURSIVE SumSeq(_)
SumSeq(s) == IF s = <<>> THEN 0 ELSE Head(s) + SumSeq(Tail(s))

\* the elements of the set S of integers, ascending
RECURSIVE Ascending(_)
Ascending(S) ==
  IF S = {} THEN <<>>
  ELSE LET m == CHOOSE x \in S : \A y \in S : x <= y
       IN <<m>> \o Ascending(S \ {m})

\* x[idx] of numpy: the elements of x at the positions idx, in that order
Take(x, idx) == [k \in 1..Len(idx) |-> x[idx[k]]]

Permutations(n) ==
  {p \in [1..n -> 0..(n-1)] : \A a, b \in 1..n : a # b => p[a] # p[b]}

\* ------------------------------------------------------------ rationals
Rat(n, d) == [num |-> n, den |-> d]
IsNaN(a) == a.den = 0
\* IEEE equality: NaN equals nothing
RatEq(a, b) == a.den # 0 /\ b.den # 0 /\ a.num * b.den = b.num * a.den
\* the same value, or both NaN
RatSame(a, b) == (IsNaN(a) /\ IsNaN(b)) \/ RatEq(a, b)
RECURSIVE GCD(_, _)
GCD(a, b) == IF b = 0 THEN a ELSE GCD(b, a % b)
\* n / d in lowest terms; NaN is 0/0
Reduced(n, d) ==
  IF d = 0 THEN Rat(0, 0)
  ELSE LET g == GCD(IF n < 0 THEN 0 - n ELSE n, d)
       IN Rat(n \div g, d \div g)
RatAdd(a, b) == Reduced(a.num * b.den + b.num * a.den, a.den * b.den)
RatMul(a, b) == Reduced(a.num * b.num, a.den * b.den)
RatNeg(a) == Rat(0 - a.num, a.den)
RatDivInt(a, k) == Reduced(a.num, a.den * k)
RatLeq(a, b) == a.den > 0 /\ b.den > 0 /\ a.num * b.den <= b.num * a.den

RECURSIVE RatSum(_)
RatSum(s) == IF s = <<>> THEN Rat(0, 1) ELSE RatAdd(Head(s), RatSum(Tail(s)))

\* ------------------------------------------------------------ random numbers
\* One step of a RandomState (a full-period congruential generator stands
\* for the Mersenne Twister: a deterministic function of the state).
rng_next(st) == (5 * st + 3) % RngMod

\* np.random.seed(random_seed), line 65: the states the global generator can
\* be in afterwards.  The call fixes the state.
np_random_seed_unseeded(seed) == 0..(RngMod - 1)
np_random_seed(seed) == {seed % RngMod}

\* RandomState(random_state) of StratifiedKFold, line 171
check_random_state(seed) == seed % RngMod

swap(x, a, b) == [x EXCEPT ![a] = x[b], ![b] = x[a]]

\* rng.shuffle(x): for i = n-1 down to 1, swap x[i] with x[j], j drawn in 0..i
\* (positions are 1-based here).  Result: the shuffled x and the new state.
RECURSIVE shuffle(_, _, _)
shuffle(x, i, st) ==
  IF i < 2 THEN [x |-> x, st |-> st]
  ELSE shuffle(swap(x, i, (st % i) + 1), i - 1, rng_next(st))

\* ------------------------------------------------------------ StratifiedKFold
unique(y) == Range(y)

first_index(y, c) ==
  CHOOSE i \in DOMAIN y : y[i] = c /\ \A j \in 1..(i - 1) : y[j] # c

\* classes are encoded by order of first appearance in y
y_encoded(y) ==
  [i \in DOMAIN y |->
     Cardinality({c \in unique(y) : first_index(y, c) < first_index(y, y[i])})]

n_classes(y) == Cardinality(unique(y))

y_counts(y, k) == Count(y_encoded(y), k)

\* y_order = sort(y_encoded): the class at 0-based position p
y_order(y, p) ==
  CHOOSE k \in 0..(n_classes(y) - 1) :
    LET before == Cardinality({i \in DOMAIN y : y_encoded(y)[i] < k})
    IN before <= p /\ p < before + y_counts(y, k)

\* a contiguous block of y_order per fold instead of every K-th element
allocation_contiguous(y, K, i, k) ==
  Cardinality({p \in 0..(Len(y) - 1) :
     (i * Len(y)) \div K <= p /\ p < ((i + 1) * Len(y)) \div K
     /\ y_order(y, p) = k})
\* allocation[i][k] = bincount(y_order[i::n_splits])[k]
allocation(y, K, i, k) ==
  Cardinality({p \in 0..(Len(y) - 1) : p % K = i /\ y_order(y, p) = k})

RECURSIVE repeat(_, _, _, _)
\* np.arange(n_splits).repeat(allocation[:, k]), from fold i on
repeat(y, K, i, k) ==
  IF i >= K THEN <<>>
  ELSE [j \in 1..allocation(y, K, i, k) |-> i] \o repeat(y, K, i + 1, k)

\* the folds of the classes 0..k after their shuffles, and the generator state
RECURSIVE folds_for_class(_, _, _, _)
folds_for_class(y, K, k, st0) ==
  LET prev == IF k = 0 THEN [st |-> st0, f |-> <<>>]
              ELSE folds_for_class(y, K, k - 1, st0)
      r == repeat(y, K, 0, k)
      sh == shuffle(r, Len(r), prev.st)
  IN [st |-> sh.st, f |-> Append(prev.f, sh.x)]

\* test_folds[y_encoded == k] = folds_for_class
test_folds(y, K, seed) ==
  LET enc == y_encoded(y)
      ffc == folds_for_class(y, K, n_classes(y) - 1, check_random_state(seed)).f
  IN [i \in DOMAIN y |->
        ffc[enc[i] + 1][Cardinality({j \in 1..i : enc[j] = enc[i]})]]

test_index(tf, i) == Ascending({s \in DOMAIN tf : tf[s] = i})

\* every index is a training index
train_index_all(tf, i) == Ascending(DOMAIN tf)
\* train_index = indices[logical_not(test_mask)]
train_index(tf, i) == Ascending({s \in DOMAIN tf : tf[s] # i})

\* split() raises ValueError before the first pair is produced
split_raises(y, K) ==
  \/ K > Len(y)
  \/ \A k \in 0..(n_classes(y) - 1) : K > y_counts(y, k)

split(y, K, seed) ==
  LET tf == test_folds(y, K, seed)
  IN [i \in 1..K |-> [train_idx |-> train_index(tf, i - 1),
                      test_idx |-> test_index(tf, i - 1)]]

\* ------------------------------------------------------------ snippet 13
\* the whole array instead of the training rows
select_train_all(x, fold) == x
\* features[train_idx], targets[train_idx]
select_train(x, fold) == Take(x, fold.train_idx)
\* features[test_idx], targets[test_idx]
select_test(x, fold) == Take(x, fold.test_idx)

\* ------------------------------------------------------------ StandardScaler
\* a scale of zero is kept
handle_zeros_in_scale_kept(var_num, n) == var_num
\* _handle_zeros_in_scale: a zero scale becomes 1.  The scale is kept squared
\* and times n*n, as the variance is: 1 is n*n.
handle_zeros_in_scale(var_num, n) == IF var_num = 0 THEN n * n ELSE var_num

\* scaler.fit(X): mean_ = sum / n, var_ = var_num / (n*n), scale_ = sqrt(var_)
scaler_fit(X) ==
  LET n == Len(X)
      sum == SumSeq(X)
      var_num == n * SumSeq([i \in DOMAIN X |-> X[i] * X[i]]) - sum * sum
  IN [n |-> n, sum |-> sum, var_num |-> var_num,
      scale2 |-> handle_zeros_in_scale(var_num, n)]

\* scaler.transform(X): (x - mean_) / scale_ = (n*x - sum) / sqrt(scale2);
\* den2 = 0 is a division by zero
scaler_transform(sc, X) ==
  [i \in DOMAIN X |-> [num |-> sc.n * X[i] - sc.sum, den2 |-> sc.scale2]]

\* ------------------------------------------------------------ LinearSVC
\* fit raises ValueError when the training labels hold a single class
fit_raises(y) == Cardinality(unique(y)) < 2

\* The solver visits the training samples in an order set by its seed
\* (liblinear's randomised coordinate descent); the order here starts at
\* sample seed % n.
visit_order(n, seed) == [k \in 1..n |-> ((seed + k - 1) % n) + 1]

\* decision_function > 0, times the positive den2: w.z + b = W*num/den2 + b
decision(c, z) == c.W * z.num + c.b * z.den2

RECURSIVE train(_, _, _, _, _)
\* one pass over the samples ord[k..]: a sample inside the margin side
\* (y * decision <= 0) updates the weights
train(c, Z, y, ord, k) ==
  IF k > Len(ord) THEN c
  ELSE LET i == ord[k]
           s == 2 * y[i] - 1
           c2 == IF s * decision(c, Z[i]) <= 0
                 THEN [W |-> c.W + s * Z[i].num, b |-> c.b + s]
                 ELSE c
       IN train(c2, Z, y, ord, k + 1)

\* clf.fit(features_train_norm, targets_train) with the seed drawn from the
\* global generator (random_state=None)
linear_svc_fit(Z, y, seed) ==
  train([W |-> 0, b |-> 0], Z, y, visit_order(Len(y), seed), 1)

\* clf.predict
predict(c, Z) == [i \in DOMAIN Z |-> IF decision(c, Z[i]) > 0 THEN 1 ELSE 0]

\* ------------------------------------------------------------ metrics
\* confusion_matrix(y_true, y_pred): labels are the values present in either
cm_labels(yt, yp) == unique(yt) \cup unique(yp)

cm_cell(yt, yp, t, p) == Cardinality({i \in DOMAIN yt : yt[i] = t /\ yp[i] = p})

\* tn, fp, fn, tp = cm.ravel() of a 2x2 matrix over the labels lo < hi
confusion_matrix(yt, yp) ==
  LET L == cm_labels(yt, yp)
      lo == CHOOSE a \in L : \A b \in L : a <= b
      hi == CHOOSE a \in L : \A b \in L : b <= a
  IN [tn |-> cm_cell(yt, yp, lo, lo), fp |-> cm_cell(yt, yp, lo, hi),
      fn |-> cm_cell(yt, yp, hi, lo), tp |-> cm_cell(yt, yp, hi, hi)]

\* the unpacking of line 232 raises ValueError unless the matrix is 2x2
ravel_raises(yt, yp) == Cardinality(cm_labels(yt, yp)) # 2

accuracy_score(yt, yp) ==
  Rat(Cardinality({i \in DOMAIN yt : yt[i] = yp[i]}), Len(yt))

\* mean of the recalls of the classes present in y_true (a class without
\* samples gives NaN and is dropped)
balanced_accuracy_score(yt, yp) ==
  LET c == confusion_matrix(yt, yp)
      rec1 == Rat(c.tp, c.tp + c.fn)
      rec0 == Rat(c.tn, c.tn + c.fp)
  IN IF IsNaN(rec1) THEN rec0
     ELSE IF IsNaN(rec0) THEN rec1
     ELSE RatDivInt(RatAdd(rec1, rec0), 2)

\* tp / (tp + fn) and tn / (tn + fp) on numpy integers: 0/0 is NaN
sensitivity(c) == Rat(c.tp, c.tp + c.fn)
specificity(c) == Rat(c.tn, c.tn + c.fp)

\* ------------------------------------------------------------ snippet 18
\* x.mean()
mean(x) == RatDivInt(RatSum(x), Len(x))
\* x.std() squared: the population variance mean(x*x) - mean(x)^2
std2(x) ==
  LET m == mean(x)
  IN RatAdd(mean([i \in DOMAIN x |-> RatMul(x[i], x[i])]), RatNeg(RatMul(m, m)))

summarize(x) == [mean |-> mean(x), std2 |-> std2(x)]

\* ------------------------------------------------------------ the script
NoScaler == [n |-> 0, sum |-> 0, var_num |-> 0, scale2 |-> 0]
NoClf == [W |-> 0, b |-> 0]
NoSeed == RngMod   \* no seed drawn: outside 0..RngMod-1
NoSummary == [mean |-> Rat(0, 0), std2 |-> Rat(0, 0)]
NoResults == [acc |-> NoSummary, bac |-> NoSummary,
              sens |-> NoSummary, spec |-> NoSummary]
NoFirst == [pc |-> None, features |-> <<>>, cv |-> <<>>, acc_cv |-> <<>>,
            bac_cv |-> <<>>, sens_cv |-> <<>>, spec_cv |-> <<>>,
            writes |-> <<>>, cv_results |-> NoResults, scaler_log |-> <<>>,
            seed_log |-> <<>>]

\* np.zeros((n_folds, 1))
zeros(n) == [i \in 1..n |-> Rat(0, 1)]

identity_order(n) == [k \in 1..n |-> k - 1]

\* the state of a run at line 197: seed set (snippet 2), tables zeroed
\* (snippet 11), nothing computed yet
Fresh(K) ==
  /\ np_rng' \in np_random_seed(random_seed)
  /\ pc' = "split"
  /\ cv' = <<>>
  /\ n_done' = 0
  /\ i_fold' = 0
  /\ features_train' = <<>> /\ features_test' = <<>>
  /\ targets_train' = <<>> /\ targets_test' = <<>>
  /\ scaler' = NoScaler
  /\ features_train_norm' = <<>> /\ features_test_norm' = <<>>
  /\ clf' = NoClf
  /\ target_test_predicted' = <<>>
  /\ acc_cv' = zeros(K) /\ bac_cv' = zeros(K)
  /\ sens_cv' = zeros(K) /\ spec_cv' = zeros(K)
  /\ cv_results' = NoResults
  /\ writes' = [i \in 1..K |-> 0]
  /\ steps' = <<>>
  /\ scaler_log' = [i \in 1..K |-> NoScaler]
  /\ cm_log' = [i \in 1..K |-> [tn |-> 0, fp |-> 0, fn |-> 0, tp |-> 0]]
  /\ n_splits_calls' = 0
  /\ seed_log' = [i \in 1..K |-> NoSeed]

Init ==
  /\ \E n \in (MaxN - 1)..MaxN :
       /\ features \in [1..n -> FeatureValues]
       /\ targets \in [1..n -> {0, 1}]
  /\ n_folds \in 2..MaxFolds
  /\ np_rng \in np_random_seed(random_seed)
  /\ pc = "split"
  /\ cv = <<>>
  /\ order = identity_order(n_folds)
  /\ n_done = 0
  /\ i_fold = 0
  /\ features_train = <<>> /\ features_test = <<>>
  /\ targets_train = <<>> /\ targets_test = <<>>
  /\ scaler = NoScaler
  /\ features_train_norm = <<>> /\ features_test_norm = <<>>
  /\ clf = NoClf
  /\ target_test_predicted = <<>>
  /\ acc_cv = zeros(n_folds) /\ bac_cv = zeros(n_folds)
  /\ sens_cv = zeros(n_folds) /\ spec_cv = zeros(n_folds)
  /\ cv_results = NoResults
  /\ writes = [i \in 1..n_folds |-> 0]
  /\ steps = <<>>
  /\ scaler_log = [i \in 1..n_folds |-> NoScaler]
  /\ cm_log = [i \in 1..n_folds |-> [tn |-> 0, fp |-> 0, fn |-> 0, tp |-> 0]]
  /\ n_splits_calls = 0
  /\ seed_log = [i \in 1..n_folds |-> NoSeed]
  /\ run = 1
  /\ mode = "first"
  /\ perturbed_fold = 0
  /\ first = NoFirst

input == <<features, targets, n_folds>>
tables == <<acc_cv, bac_cv, sens_cv, spec_cv, writes, cm_log>>
fold_data == <<features_train, features_test, targets_train, targets_test>>
fold_model == <<scaler, features_train_norm, features_test_norm, scaler_log>>
second == <<run, mode, perturbed_fold, first, order>>

\* line 198, first iteration: skf.split(features, targets) checks its
\* arguments and computes the test folds
SplitRaises ==
  /\ pc = "split"
  /\ split_raises(targets, n_folds)
  /\ n_splits_calls' = n_splits_calls + 1
  /\ pc' = "error"
  /\ UNCHANGED <<input, np_rng, cv, n_done, i_fold, fold_data, fold_model, clf,
                 target_test_predicted, tables, cv_results, steps, second, seed_log>>

Split ==
  /\ pc = "split"
  /\ ~split_raises(targets, n_folds)
  /\ n_splits_calls' = n_splits_calls + 1
  /\ cv' = split(targets, n_folds, random_seed)
  /\ pc' = "next_fold"
  /\ UNCHANGED <<input, np_rng, n_done, i_fold, fold_data, fold_model, clf,
                 target_test_predicted, tables, cv_results, steps, second, seed_log>>

\* the loop stops one fold early
enumerate_has_next_short(done, pairs) == done < Len(pairs) - 1
\* line 198: the generator has another pair
enumerate_has_next(done, pairs) == done < Len(pairs)

\* lines 198-206: take the next pair, split the data
NextFold ==
  /\ pc = "next_fold"
  /\ enumerate_has_next(n_done, cv)
  /\ i_fold' = order[n_done + 1]
  /\ LET fold == cv[i_fold' + 1]
     IN /\ features_train' = select_train(features, fold)
        /\ features_test' = select_test(features, fold)
        /\ targets_train' = select_train(targets, fold)
        /\ targets_test' = select_test(targets, fold)
  /\ steps' = <<>>
  /\ pc' = "normalize"
  /\ UNCHANGED <<input, np_rng, cv, n_done, fold_model, clf,
                 target_test_predicted, tables, cv_results, n_splits_calls,
                 second, seed_log>>

\* lines 210-215
Normalize ==
  /\ pc = "normalize"
  /\ scaler' = scaler_fit(features_train)
  /\ features_train_norm' = scaler_transform(scaler', features_train)
  /\ features_test_norm' = scaler_transform(scaler', features_test)
  /\ scaler_log' = [scaler_log EXCEPT ![i_fold + 1] = scaler']
  /\ steps' = Append(steps, "normalize")
  /\ pc' = "fit"
  /\ UNCHANGED <<input, np_rng, cv, n_done, i_fold, fold_data, clf,
                 target_test_predicted, tables, cv_results, n_splits_calls,
                 second, seed_log>>

\* lines 219-220, a single class in the training labels
FitRaises ==
  /\ pc = "fit"
  /\ fit_raises(targets_train)
  /\ pc' = "error"
  /\ UNCHANGED <<input, np_rng, cv, n_done, i_fold, fold_data, fold_model, clf,
                 target_test_predicted, tables, cv_results, steps,
                 n_splits_calls, second, seed_log>>

\* lines 219-220: LinearSVC(loss='hinge') has random_state=None, so fit draws
\* the solver's seed from numpy's global generator
Fit ==
  /\ pc = "fit"
  /\ ~fit_raises(targets_train)
  /\ clf' = linear_svc_fit(features_train_norm, targets_train, np_rng)
  /\ np_rng' = rng_next(np_rng)
  /\ seed_log' = [seed_log EXCEPT ![i_fold + 1] = np_rng]
  /\ steps' = Append(steps, "fit")
  /\ pc' = "predict"
  /\ UNCHANGED <<input, cv, n_done, i_fold, fold_data, fold_model,
                 target_test_predicted, tables, cv_results, n_splits_calls,
                 second>>

\* line 224
Predict ==
  /\ pc = "predict"
  /\ target_test_predicted' = predict(clf, features_test_norm)
  /\ steps' = Append(steps, "predict")
  /\ pc' = "score"
  /\ UNCHANGED <<input, np_rng, cv, n_done, i_fold, fold_data, fold_model, clf,
                 tables, cv_results, n_splits_calls, second, seed_log>>

\* lines 229-232: the confusion matrix is not 2x2
ScoreRaises ==
  /\ pc = "score"
  /\ ravel_raises(targets_test, target_test_predicted)
  /\ pc' = "error"
  /\ UNCHANGED <<input, np_rng, cv, n_done, i_fold, fold_data, fold_model, clf,
                 target_test_predicted, tables, cv_results, steps,
                 n_splits_calls, second, seed_log>>

\* lines 229-248
Score ==
  /\ pc = "score"
  /\ ~ravel_raises(targets_test, target_test_predicted)
  /\ LET c == confusion_matrix(targets_test, target_test_predicted)
         row == i_fold + 1
     IN /\ acc_cv' = [acc_cv EXCEPT
               ![row] = accuracy_score(targets_test, target_test_predicted)]
        /\ bac_cv' = [bac_cv EXCEPT
               ![row] = balanced_accuracy_score(targets_test, target_test_predicted)]
        /\ sens_cv' = [sens_cv EXCEPT ![row] = sensitivity(c)]
        /\ spec_cv' = [spec_cv EXCEPT ![row] = specificity(c)]
        /\ writes' = [writes EXCEPT ![row] = @ + 1]
        /\ cm_log' = [cm_log EXCEPT ![row] = c]
  /\ steps' = Append(steps, "score")
  /\ n_done' = n_done + 1
  /\ pc' = "next_fold"
  /\ UNCHANGED <<input, np_rng, cv, i_fold, fold_data, fold_model, clf,
                 target_test_predicted, cv_results, n_splits_calls, second, seed_log>>

\* lines 258-262, after the loop
Summary ==
  /\ pc = "next_fold"
  /\ ~enumerate_has_next(n_done, cv)
  /\ cv_results' = [acc |-> summarize(acc_cv), bac |-> summarize(bac_cv),
                    sens |-> summarize(sens_cv), spec |-> summarize(spec_cv)]
  /\ pc' = "done"
  /\ UNCHANGED <<input, np_rng, cv, n_done, i_fold, fold_data, fold_model, clf,
                 target_test_predicted, tables, steps, n_splits_calls, second, seed_log>>

Ended == pc \in {"done", "error"}

Outputs == [pc |-> pc, features |-> features, cv |-> cv, acc_cv |-> acc_cv,
            bac_cv |-> bac_cv, sens_cv |-> sens_cv, spec_cv |-> spec_cv,
            writes |-> writes, cv_results |-> cv_results,
            scaler_log |-> scaler_log, seed_log |-> seed_log]

\* the script is run again on the same input
RerunSame ==
  /\ run = 1 /\ Ended
  /\ first' = Outputs
  /\ run' = 2 /\ mode' = "same" /\ perturbed_fold' = 0
  /\ order' = identity_order(n_folds)
  /\ Fresh(n_folds)
  /\ UNCHANGED input

\* the script is run again on an input that differs from the first in the
\* feature values of the test samples of one fold
RerunPerturbed ==
  /\ run = 1 /\ Ended /\ cv # <<>>
  /\ \E f \in 1..n_folds, d \in FeatureValues \ {0} :
       /\ perturbed_fold' = f
       /\ features' = [i \in DOMAIN features |->
                         IF i \in Range(cv[f].test_idx)
                         THEN (features[i] + d) % Cardinality(FeatureValues)
                         ELSE features[i]]
  /\ first' = Outputs
  /\ run' = 2 /\ mode' = "perturbed"
  /\ order' = identity_order(n_folds)
  /\ Fresh(n_folds)
  /\ UNCHANGED <<targets, n_folds>>

\* the loop body is executed over the folds in another order
RerunReordered ==
  /\ run = 1 /\ Ended /\ cv # <<>>
  /\ order' \in Permutations(n_folds) \ {identity_order(n_folds)}
  /\ first' = Outputs
  /\ run' = 2 /\ mode' = "reordered" /\ perturbed_fold' = 0
  /\ Fresh(n_folds)
  /\ UNCHANGED input

Step ==
  \/ SplitRaises \/ Split \/ NextFold \/ Normalize \/ FitRaises \/ Fit
  \/ Predict \/ ScoreRaises \/ Score \/ Summary

Next == Step \/ RerunSame \/ RerunPerturbed

Spec == Init /\ [][Next]_vars

NextAnyOrder == Next \/ RerunReordered

SpecAnyOrder == Init /\ [][NextAnyOrder]_vars

\* ------------------------------------------------------------ properties
Partitioned == cv # <<>>
Normalized == steps # <<>>
SameTable(a, b) ==
  /\ Len(a) = Len(b)
  /\ \A i \in DOMAIN a : RatSame(a[i], b[i])
SameSummary(a, b) == RatSame(a.mean, b.mean) /\ RatSame(a.std2, b.std2)
MinorityCount == IF Count(targets, 0) < Count(targets, 1)
                 THEN Count(targets, 0) ELSE Count(targets, 1)
Positives(idx) == Cardinality({k \in DOMAIN idx : targets[idx[k]] = 1})
Negatives(idx) == Cardinality({k \in DOMAIN idx : targets[idx[k]] = 0})
Abs(x) == IF x < 0 THEN 0 - x ELSE x

\* C1: the K pairs of the stratified split are an exhaustive, disjoint
\* partition: every sample index is in the test subset of exactly one fold,
\* and in every fold the train subset is the complement of the test subset,
\* so train size + test size = N.
C1_Partition ==
  Partitioned =>
    /\ Len(cv) = n_folds
    /\ \A s \in DOMAIN targets :
         Cardinality({i \in 1..n_folds : s \in Range(cv[i].test_idx)}) = 1
    /\ \A i \in 1..n_folds :
         /\ Range(cv[i].test_idx) \subseteq DOMAIN targets
         /\ Len(cv[i].test_idx) = Cardinality(Range(cv[i].test_idx))
         /\ Len(cv[i].train_idx) = Cardinality(Range(cv[i].train_idx))
         /\ Range(cv[i].train_idx) = DOMAIN targets \ Range(cv[i].test_idx)
         /\ Len(cv[i].train_idx) + Len(cv[i].test_idx) = Len(targets)

C1_Witness ==
  /\ pc = "normalize" /\ i_fold = 1 /\ n_folds = 3
  /\ Len(features_train) + Len(features_test) = Len(targets)
  /\ Len(features_test) = 2

\* C2: a fold's normalization parameters are computed from the fold's
\* training subset only: a run whose input differs from the first run's only
\* in the feature values of one fold's test samples computes the same
\* (mean, sd) for that fold; and the test subset is transformed with them.
C2_NoLeakage ==
  /\ Normalized =>
       /\ scaler = scaler_fit(Take(features, cv[i_fold + 1].train_idx))
       /\ features_test_norm = scaler_transform(scaler, features_test)
  /\ (run = 2 /\ mode = "perturbed"
        /\ scaler_log[perturbed_fold] # NoScaler
        /\ first.scaler_log[perturbed_fold] # NoScaler)
       => scaler_log[perturbed_fold] = first.scaler_log[perturbed_fold]

C2_Witness ==
  /\ run = 2 /\ mode = "perturbed"
  /\ features # first.features
  /\ scaler_log[perturbed_fold] # NoScaler
  /\ first.scaler_log[perturbed_fold] # NoScaler
  /\ scaler_log[perturbed_fold].var_num > 0

\* C3: two complete runs on the same input with the same seed end the same
\* way, with the same partition, the same solver seed in every fit, the same
\* per-fold metrics and the same summary statistics.
C3_Deterministic ==
  /\ (run = 2 /\ mode = "same") =>
       /\ Partitioned => cv = first.cv
       /\ \A i \in 1..n_folds :
            seed_log[i] # NoSeed => seed_log[i] = first.seed_log[i]
  /\ (run = 2 /\ mode = "same" /\ Ended) =>
    /\ pc = first.pc
    /\ cv = first.cv
    /\ SameTable(acc_cv, first.acc_cv)
    /\ SameTable(bac_cv, first.bac_cv)
    /\ SameTable(sens_cv, first.sens_cv)
    /\ SameTable(spec_cv, first.spec_cv)
    /\ writes = first.writes
    /\ seed_log = first.seed_log
    /\ SameSummary(cv_results.acc, first.cv_results.acc)
    /\ SameSummary(cv_results.bac, first.cv_results.bac)
    /\ SameSummary(cv_results.sens, first.cv_results.sens)
    /\ SameSummary(cv_results.spec, first.cv_results.spec)

C3_Witness ==
  /\ run = 2 /\ mode = "same" /\ pc = "done" /\ n_folds = 3
  /\ \E i \in 1..n_folds : RatEq(acc_cv[i], Rat(1, 2))

\* C4: for every scored fold, with tn, fp, fn, tp its confusion counts:
\* they sum to the test set size, accuracy = (tp+tn)/(tp+tn+fp+fn),
\* sensitivity = tp/(tp+fn), specificity = tn/(tn+fp), balanced accuracy =
\* (sensitivity+specificity)/2 exactly, accuracy and balanced accuracy in [0,1].
C4_Metrics ==
  \A i \in 1..n_folds :
    writes[i] >= 1 =>
      LET c == cm_log[i]
      IN /\ c.tn + c.fp + c.fn + c.tp = Len(cv[i].test_idx)
         /\ RatSame(acc_cv[i], Rat(c.tp + c.tn, c.tp + c.tn + c.fp + c.fn))
         /\ RatSame(sens_cv[i], Rat(c.tp, c.tp + c.fn))
         /\ RatSame(spec_cv[i], Rat(c.tn, c.tn + c.fp))
         /\ RatSame(bac_cv[i], RatDivInt(RatAdd(sens_cv[i], spec_cv[i]), 2))
         /\ RatLeq(Rat(0, 1), acc_cv[i]) /\ RatLeq(acc_cv[i], Rat(1, 1))
         /\ RatLeq(Rat(0, 1), bac_cv[i]) /\ RatLeq(bac_cv[i], Rat(1, 1))

\* C5: a sensitivity or specificity that is undefined (no sample of the class
\* in the fold's test subset) is never stored as NaN in the results tables
\* and never reaches the cross-fold mean.
C5_Signaled ==
  /\ \A i \in 1..n_folds :
       writes[i] >= 1 => ~IsNaN(sens_cv[i]) /\ ~IsNaN(spec_cv[i])
  /\ pc = "done" =>
       ~IsNaN(cv_results.sens.mean) /\ ~IsNaN(cv_results.spec.mean)

\* C6: when the fold count exceeds the sample count of the minority class
\* the input is rejected before any fold begins: no fold is trained or
\* scored and no row of the results tables is written.
C6_FailFast ==
  n_folds > MinorityCount =>
    /\ pc \in {"split", "next_fold", "error"}
    /\ n_done = 0
    /\ steps = <<>>
    /\ \A i \in 1..n_folds : writes[i] = 0

\* C7: in every fold the fraction of positive labels in the test subset
\* differs from the fraction in the full dataset by at most 1/fold_size, and
\* the per-fold counts of each class differ by at most one between folds.
C7_Stratified ==
  Partitioned =>
    /\ \A i \in 1..n_folds :
         /\ Len(cv[i].test_idx) > 0
         /\ Abs(Positives(cv[i].test_idx) * Len(targets)
                - Count(targets, 1) * Len(cv[i].test_idx)) <= Len(targets)
    /\ \A i, j \in 1..n_folds :
         /\ Abs(Positives(cv[i].test_idx) - Positives(cv[j].test_idx)) <= 1
         /\ Abs(Negatives(cv[i].test_idx) - Negatives(cv[j].test_idx)) <= 1

C7_Witness ==
  /\ Partitioned /\ n_folds = 2 /\ Count(targets, 1) = 3 /\ Count(targets, 0) = 2
  /\ \E i \in 1..n_folds : Positives(cv[i].test_idx) = 2
  /\ \E i \in 1..n_folds : Positives(cv[i].test_idx) = 1

\* C8: a run is a single ordered pass: the partition is computed once; the
\* folds are taken in partition order; each fold performs normalize, fit,
\* predict, score in that order and writes row i_fold once; the summary is
\* computed only after all K rows have been written.
C8_OrderedPass ==
  /\ n_splits_calls <= 1
  /\ Partitioned => n_splits_calls = 1
  /\ \A i \in 1..n_folds : writes[i] = IF i <= n_done THEN 1 ELSE 0
  /\ pc \in {"normalize", "fit", "predict", "score"} => i_fold = n_done
  /\ \A k \in DOMAIN steps :
       steps[k] = <<"normalize", "fit", "predict", "score">>[k]
  /\ pc = "fit" => steps = <<"normalize">>
  /\ pc = "predict" => steps = <<"normalize", "fit">>
  /\ pc = "score" => steps = <<"normalize", "fit", "predict">>
  /\ cv_results # NoResults => pc = "done"
  /\ pc = "done" =>
       /\ n_done = n_folds
       /\ \A i \in 1..n_folds : writes[i] = 1
       /\ cv_results.acc = summarize(acc_cv)
       /\ cv_results.sens = summarize(sens_cv)

C8_Witness ==
  /\ pc = "done" /\ n_folds = 3 /\ run = 1
  /\ \E i \in 1..n_folds : acc_cv[i].num > 0

\* C9: no state is shared between folds: a run that takes the folds in
\* another order gives every fold's fit the same random state and writes the
\* same per-fold metrics as the sequential run.
C9_OrderIndependent ==
  (run = 2 /\ mode = "reordered" /\ pc = "done" /\ first.pc = "done") =>
    /\ seed_log = first.seed_log
    /\ SameTable(acc_cv, first.acc_cv)
    /\ SameTable(bac_cv, first.bac_cv)
    /\ SameTable(sens_cv, first.sens_cv)
    /\ SameTable(spec_cv, first.spec_cv)

====
